---- MODULE Spec2Model ----
(***************************************************************************)
(* Model of soho_loader/__init__.py: the soho_load pipeline, resample_df,  *)
(* calc_av_en_flux_ERNE, and the EPHIN level-2 loaders.                    *)
(*                                                                         *)
(* Time is counted in ticks of half a second, so that 7.5 s, 15 s and 30 s *)
(* are the integers 15, 30 and 60.  A table (DataFrame) is a sequence of   *)
(* rows [t |-> timestamp, c |-> <<cell, ...>>]; a cell is <<x>> for the    *)
(* number x, <<>> for the missing marker (NaN) and <<sum, n>> for the mean *)
(* sum/n of a resampling bin.                                              *)
(***************************************************************************)
EXTENDS Integers, Sequences, FiniteSets, TLC

VARIABLES
    \* ---- soho_load ----
    dataset,        \* argument
    pos_timestamp,  \* argument
    resample,       \* argument
    archive,        \* file names the remote archive holds for the time range
    content,        \* the table the archive's files parse to
    disk,           \* local files: name -> "absent" | "empty" | "full"
    pc,             \* position in soho_load
    result,         \* Fido.search result: remote items (by file name), in search order
    filelist,       \* sorted local file names
    i,              \* loop index of the fetch loop (1-based)
    fetched,        \* remote items Fido.fetch was called for, in call order
    fetchedFor,     \* for each of those calls, the local file name f that triggered it
    removed,        \* local files removed by os.remove
    df,             \* the table being built
    metadata,       \* the metadata result
    printed,        \* notices printed
    thrown,         \* exception raised inside soho_load ("" if none)
    raised,         \* exception that reached the caller ("" if none)
    disk0,          \* the local files as they were when soho_load was called
    steps,          \* pipeline steps performed, in order
    \* ---- resample_df ----
    rsCall,
    \* ---- calc_av_en_flux_ERNE ----
    fxCall,
    \* ---- soho_ephin_loader / ephin_rl2_loader ----
    ephin

\* what no step of soho_load changes: its arguments, the archive, the other calls
loadArgs == <<dataset, pos_timestamp, resample, archive, content, disk0,
              rsCall, fxCall, ephin>>
loadVars == <<dataset, pos_timestamp, resample, archive, content, disk0, disk, pc,
              result, filelist, i, fetched, fetchedFor, removed, df, metadata,
              printed, thrown, raised, steps>>
vars == <<loadVars, rsCall, fxCall, ephin>>

\* Python's None
NoneVal == "<None>"

\* ------------------------------------------------------------------------
\* Bounds of the model
\* ------------------------------------------------------------------------
MaxFiles == 2
MaxRows == 2
\* number of energy channels of a channel descriptor table
NCh == 3
\* number of days of the date range of soho_ephin_loader
MaxDates == 2
\* the status words 0..MaxStatus
MaxStatus == 7

\* ------------------------------------------------------------------------
\* Small helpers
\* ------------------------------------------------------------------------
Range(s) == {s[k] : k \in DOMAIN s}

\* sequences over S of length lo..hi
SeqsOf(S, lo, hi) == UNION {[1..n -> S] : n \in lo..hi}

\* ------------------------------------------------------------------------
\* Datasets, arguments
\* ------------------------------------------------------------------------
Datasets == {"SOHO_COSTEP-EPHIN_L2", "SOHO_COSTEP-EPHIN_L3I-1MIN", "SOHO_CELIAS-PM_30S",
             "SOHO_CELIAS-SEM_15S", "SOHO_ERNE-LED_L2-1MIN", "SOHO_ERNE-HED_L2-1MIN"}

PosTokens == {"center", "start", NoneVal, "end"}

ResampleArgs == {NoneVal, "1min", "30s", "bogus"}

\* str.upper() on dataset identifiers
Upper(s) ==
    CASE s = "soho_erne-hed_l2-1min" -> "SOHO_ERNE-HED_L2-1MIN"
      [] s = "soho_erne-led_l2-1min" -> "SOHO_ERNE-LED_L2-1MIN"
      [] s = "soho_costep-ephin_l3i-1min" -> "SOHO_COSTEP-EPHIN_L3I-1MIN"
      [] s = "soho_celias-pm_30s" -> "SOHO_CELIAS-PM_30S"
      [] s = "soho_celias-sem_15s" -> "SOHO_CELIAS-SEM_15S"
      [] s = "soho_costep-ephin_l2" -> "SOHO_COSTEP-EPHIN_L2"
      [] OTHER -> s

\* pd.Timedelta(<string>) in ticks of half a second; 0 stands for a string
\* that is no proper frequency (pandas raises a ValueError for it)
Timedelta(s) ==
    CASE s = "30s" -> 60
      [] s = "15s" -> 30
      [] s = "7.5s" -> 15
      [] s = "1min" -> 120
      [] s = "12h" -> 86400
      [] OTHER -> 0

\* ------------------------------------------------------------------------
\* Tables
\* ------------------------------------------------------------------------
NaN == <<>>
\* FILLVAL of the flux columns, -1e+31 in the source, and of the ERNE count
\* rates, -2147483648 in the source: both exceed TLC's integers and are scaled
\* down here; the code only tests cells for equality with them.
FILLVAL_FLUX == -1000000
FILLVAL_INT == -2147483

\* timestamps and cells of the tables soho_load parses
Times == {0, 50, 100}
CellValues == {<<FILLVAL_FLUX>>, <<FILLVAL_INT>>, <<2>>}

IsSortedByTime(tb) == \A k \in 1..(Len(tb) - 1) : tb[k].t <= tb[k + 1].t

\* the tables of 1..maxRows rows and ncols columns, index non-decreasing
TablesOver(times, cells, maxRows, ncols) ==
    {tb \in SeqsOf([t : times, c : [1..ncols -> cells]], 1, maxRows) : IsSortedByTime(tb)}

Tables(maxRows, ncols) == TablesOver(Times, CellValues, maxRows, ncols)

\* df.index = df.index + delta
ShiftIndex(tb, delta) == [k \in DOMAIN tb |-> [tb[k] EXCEPT !.t = @ + delta]]

\* df.replace(value, np.nan)
Replace(tb, value) ==
    [k \in DOMAIN tb |->
        [tb[k] EXCEPT !.c = [j \in DOMAIN tb[k].c |->
                                IF tb[k].c[j] = <<value>> THEN NaN ELSE tb[k].c[j]]]]

\* the cleaning with the second replacement left out
Clean_FluxOnly(tb) == Replace(tb, FILLVAL_FLUX)

\* lines 158-159: the sentinel cleaning of soho_load
Clean(tb) == Replace(Replace(tb, FILLVAL_FLUX), FILLVAL_INT)

\* ------------------------------------------------------------------------
\* resample_df
\* ------------------------------------------------------------------------
\* left edge of the bin of width w that holds t (bins are aligned to midnight)
BinLeft(t, w) == (t \div w) * w

RECURSIVE SumCells(_, _, _)
\* <<sum, count>> of the non-missing cells of column j over the rows ks of tb
SumCells(tb, j, ks) ==
    IF ks = {} THEN <<0, 0>>
    ELSE LET k == CHOOSE k \in ks : TRUE
             rest == SumCells(tb, j, ks \ {k})
             cell == tb[k].c[j]
         IN  IF Len(cell) = 0 THEN rest
             ELSE IF Len(cell) = 1 THEN <<rest[1] + cell[1], rest[2] + 1>>
             ELSE <<rest[1] + cell[1], rest[2] + cell[2]>>

\* mean of column j over the rows ks: NaN when no cell counts
MeanCell(tb, j, ks) ==
    LET s == SumCells(tb, j, ks) IN IF s[2] = 0 THEN NaN ELSE s

\* df.resample(w).mean(): one row per bin from the first to the last row's bin,
\* labelled with the bin's left edge
ResampleMean(tb, w) ==
    IF tb = <<>> THEN <<>>
    ELSE LET first == BinLeft(tb[1].t, w)
             last == BinLeft(tb[Len(tb)].t, w)
             nb == ((last - first) \div w) + 1
         IN  [b \in 1..nb |->
                LET left == first + (b - 1) * w
                    ks == {k \in DOMAIN tb : BinLeft(tb[k].t, w) = left}
                IN  [t |-> left,
                     c |-> [j \in DOMAIN tb[1].c |-> MeanCell(tb, j, ks)]]]

\* the relabelling with the bin's end instead of its centre
resample_df_EndLabel(tb, rs, pos) ==
    LET binned == ResampleMean(tb, Timedelta(rs))
    IN  IF pos = "start" THEN binned
        ELSE ShiftIndex(binned, Timedelta(rs))

\* lines 30-34: resample_df(df, resample, pos_timestamp) for a proper frequency
resample_df(tb, rs, pos) ==
    LET binned == ResampleMean(tb, Timedelta(rs))
    IN  IF pos = "start" THEN binned
        ELSE ShiftIndex(binned, Timedelta(rs) \div 2)

\* ------------------------------------------------------------------------
\* soho_load
\* ------------------------------------------------------------------------
FileUniverse == <<"soho_a.cdf", "soho_b.cdf", "soho_c.cdf">>
FileNames == {FileUniverse[k] : k \in 1..MaxFiles}
Rank(f) == CHOOSE k \in DOMAIN FileUniverse : FileUniverse[k] = f

\* list.sort() of a list of file names
SortNames(s) ==
    CHOOSE p \in [DOMAIN s -> Range(s)] :
        /\ \A f \in Range(s) : Cardinality({k \in DOMAIN s : s[k] = f})
                                 = Cardinality({k \in DOMAIN p : p[k] = f})
        /\ \A k \in 1..(Len(s) - 1) : Rank(p[k]) <= Rank(p[k + 1])

\* what Fido.search may return for the archive: every item once, in any order
SearchResults(ar) ==
    {r \in [1..Cardinality(ar) -> ar] : Range(r) = ar}

\* Fido.fetch(item): downloads the item under its own name, skipping the
\* download when a file of that name exists (overwrite=False)
FetchEffect(d, item) == IF d[item] = "absent" THEN [d EXCEPT ![item] = "full"] ELSE d

\* the remote item the loop fetches for position k of the sorted list
FetchItem(res, k) == res[k]

\* _get_metadata
GetMetadata(ds) ==
    IF ds = "SOHO_ERNE-HED_L2-1MIN" \/ ds = "SOHO_ERNE-LED_L2-1MIN"
    THEN IF ds = "SOHO_ERNE-HED_L2-1MIN" THEN "ERNE-H" ELSE "ERNE-L"
    ELSE "[]"

\* the offset with the CELIAS-SEM correction applied in the wrong direction
AdjustTimestamps_SemForward(tb, ds, pos) ==
    LET d1 == IF pos = "center"
                 /\ (Upper(ds) = "SOHO_ERNE-HED_L2-1MIN"
                     \/ Upper(ds) = "SOHO_ERNE-LED_L2-1MIN"
                     \/ Upper(ds) = "SOHO_COSTEP-EPHIN_L3I-1MIN")
              THEN ShiftIndex(tb, Timedelta("30s")) ELSE tb
        d2 == IF pos = "center" /\ Upper(ds) = "SOHO_CELIAS-PM_30S"
              THEN ShiftIndex(d1, Timedelta("15s")) ELSE d1
    IN  IF pos = "start" /\ Upper(ds) = "SOHO_CELIAS-SEM_15S"
        THEN ShiftIndex(d2, Timedelta("7.5s")) ELSE d2

\* lines 164-173: the constant timestamp offset of soho_load
AdjustTimestamps(tb, ds, pos) ==
    LET d1 == IF pos = "center"
                 /\ (Upper(ds) = "SOHO_ERNE-HED_L2-1MIN"
                     \/ Upper(ds) = "SOHO_ERNE-LED_L2-1MIN"
                     \/ Upper(ds) = "SOHO_COSTEP-EPHIN_L3I-1MIN")
              THEN ShiftIndex(tb, Timedelta("30s")) ELSE tb
        d2 == IF pos = "center" /\ Upper(ds) = "SOHO_CELIAS-PM_30S"
              THEN ShiftIndex(d1, Timedelta("15s")) ELSE d1
    IN  IF pos = "start" /\ Upper(ds) = "SOHO_CELIAS-SEM_15S"
        THEN ShiftIndex(d2, 0 - Timedelta("7.5s")) ELSE d2

LoadIdle ==
    /\ pc = "validate" /\ result = <<>> /\ filelist = <<>> /\ i = 1
    /\ fetched = <<>> /\ fetchedFor = <<>> /\ removed = <<>> /\ df = <<>>
    /\ metadata = "unset" /\ printed = <<>> /\ thrown = "" /\ raised = ""
    /\ steps = <<>> /\ disk0 = disk

\* the precondition with its test left out
ValidPos_NoCheck(pos) == TRUE

\* line 127: the values of pos_timestamp the precondition lets through
ValidPos(pos) == pos = "center" \/ pos = "start" \/ pos = NoneVal

\* a bare except clause
Catches_Any(kind) == TRUE

\* line 177: the exception kinds the except clause of soho_load handles
Catches(kind) == kind = "RuntimeError"

\* an exception of the given kind raised inside the try block (lines 132-176)
RaiseInTry(kind) ==
    /\ thrown' = kind
    /\ IF Catches(kind)
       THEN pc' = "except" /\ raised' = raised
       ELSE pc' = "raised" /\ raised' = kind

\* lines 127-128: the precondition on pos_timestamp, outside the try block
Validate ==
    /\ pc = "validate"
    /\ IF ~ValidPos(pos_timestamp)
       THEN pc' = "raised" /\ raised' = "ValueError" /\ thrown' = "ValueError"
       ELSE pc' = "search" /\ UNCHANGED <<raised, thrown>>
    /\ UNCHANGED <<loadArgs, disk, result, filelist, i, fetched, fetchedFor, removed,
                   df, metadata, printed, steps>>

\* lines 133-140: Fido.search and the sorted file list; the search signals
\* "no results" with a RuntimeError
Search ==
    /\ pc = "search"
    /\ \/ /\ \E r \in SearchResults(archive) :
                /\ result' = r
                /\ filelist' = SortNames(r)
          /\ pc' = "loop"
          /\ steps' = Append(steps, "search")
          /\ UNCHANGED <<raised, thrown>>
       \/ /\ RaiseInTry("RuntimeError")
          /\ UNCHANGED <<result, filelist, steps>>
    /\ i' = 1
    /\ UNCHANGED <<loadArgs, disk, fetched, fetchedFor, removed, df, metadata, printed>>

\* lines 142-146: one iteration of the fetch loop
FetchStep ==
    /\ pc = "loop"
    /\ i <= Len(filelist)
    /\ LET f == filelist[i]
           rm == disk[f] = "empty"
           d1 == IF rm THEN [disk EXCEPT ![f] = "absent"] ELSE disk
           ft == d1[f] = "absent"
       IN  /\ removed' = IF rm THEN Append(removed, f) ELSE removed
           /\ fetched' = IF ft THEN Append(fetched, FetchItem(result, i)) ELSE fetched
           /\ fetchedFor' = IF ft THEN Append(fetchedFor, f) ELSE fetchedFor
           /\ disk' = IF ft THEN FetchEffect(d1, FetchItem(result, i)) ELSE d1
           /\ steps' = steps \o (IF rm THEN <<"remove">> ELSE <<>>)
                             \o (IF ft THEN <<"fetch">> ELSE <<>>)
    /\ i' = i + 1
    /\ UNCHANGED <<loadArgs, pc, result, filelist, df, metadata, printed, raised, thrown>>

\* lines 150-153: TimeSeries(downloaded_files), to_dataframe, _get_metadata;
\* a listed file that is not on disk is an error of the parser (a ValueError)
Parse ==
    /\ pc = "loop"
    /\ i > Len(filelist)
    /\ IF \E f \in Range(filelist) : disk[f] # "full"
       THEN /\ RaiseInTry("ValueError")
            /\ UNCHANGED <<df, metadata, steps>>
       ELSE /\ df' = content
            /\ metadata' = GetMetadata(dataset)
            /\ steps' = Append(steps, "parse")
            /\ pc' = "clean"
            /\ UNCHANGED <<raised, thrown>>
    /\ UNCHANGED <<loadArgs, disk, result, filelist, i, fetched, fetchedFor, removed,
                   printed>>

\* the pipeline with the cleaning step left out
CleanStep_Skipped ==
    /\ pc = "clean"
    /\ pc' = "offset"
    /\ UNCHANGED <<loadArgs, disk, result, filelist, i, fetched, fetchedFor, removed,
                   df, metadata, printed, raised, thrown, steps>>

\* lines 158-159
CleanStep ==
    /\ pc = "clean"
    /\ df' = Clean(df)
    /\ steps' = Append(steps, "clean")
    /\ pc' = "offset"
    /\ UNCHANGED <<loadArgs, disk, result, filelist, i, fetched, fetchedFor, removed,
                   metadata, printed, raised, thrown>>

\* lines 164-173
OffsetStep ==
    /\ pc = "offset"
    /\ df' = AdjustTimestamps(df, dataset, pos_timestamp)
    /\ steps' = Append(steps, "offset")
    /\ pc' = "resample"
    /\ UNCHANGED <<loadArgs, disk, result, filelist, i, fetched, fetchedFor, removed,
                   metadata, printed, raised, thrown>>

\* lines 175-176, with resample_df's own except clause (lines 37-38), which
\* turns pandas' ValueError for an improper frequency into another ValueError
ResampleStep ==
    /\ pc = "resample"
    /\ IF resample # NoneVal
       THEN IF Timedelta(resample) = 0
            THEN /\ RaiseInTry("ValueError")
                 /\ UNCHANGED <<df, steps>>
            ELSE /\ df' = resample_df(df, resample, pos_timestamp)
                 /\ steps' = Append(steps, "resample")
                 /\ pc' = "return"
                 /\ UNCHANGED <<raised, thrown>>
       ELSE pc' = "return" /\ UNCHANGED <<df, steps, raised, thrown>>
    /\ UNCHANGED <<loadArgs, disk, result, filelist, i, fetched, fetchedFor, removed,
                   metadata, printed>>

\* lines 177-181: except RuntimeError
ExceptRuntimeError ==
    /\ pc = "except"
    /\ printed' = Append(printed, <<"Unable to obtain \"", dataset, "\" data!">>)
    /\ df' = <<>>
    /\ metadata' = "[]"
    /\ pc' = "return"
    /\ UNCHANGED <<loadArgs, disk, result, filelist, i, fetched, fetchedFor, removed,
                   raised, thrown, steps>>

\* line 182
Return ==
    /\ pc = "return"
    /\ pc' = "done"
    /\ UNCHANGED <<loadArgs, disk, result, filelist, i, fetched, fetchedFor, removed,
                   df, metadata, printed, raised, thrown, steps>>

NextLoad ==
    \/ Validate \/ Search \/ FetchStep \/ Parse \/ CleanStep \/ OffsetStep
    \/ ResampleStep \/ ExceptRuntimeError \/ Return

OtherIdle == rsCall = <<>> /\ fxCall = <<>> /\ ephin = <<>>

\* soho_load over an archive of up to MaxFiles files, any local cache state
InitLoad ==
    /\ dataset \in Datasets
    /\ pos_timestamp \in PosTokens
    /\ resample \in {NoneVal, "1min"}
    /\ archive \in (SUBSET FileNames) \ {{}}
    /\ disk \in [FileNames -> {"absent", "empty", "full"}]
    /\ content \in {tb \in Tables(1, 1) : tb[1].t = 0}
    /\ LoadIdle
    /\ OtherIdle

SpecLoad == InitLoad /\ [][NextLoad]_vars

\* soho_load over a one-file archive, any table of up to MaxRows rows
InitTable ==
    /\ dataset \in Datasets
    /\ pos_timestamp \in PosTokens
    /\ resample \in {NoneVal, "1min", "bogus"}
    /\ archive = {FileUniverse[1]}
    /\ disk \in {d \in [FileNames -> {"absent", "empty", "full"}] :
                    \A f \in FileNames \ archive : d[f] = "absent"}
    /\ content \in Tables(MaxRows, 1)
    /\ LoadIdle
    /\ OtherIdle

SpecTable == InitTable /\ [][NextLoad]_vars

\* soho_load over a one-file archive whose files parse to a table of two
\* columns (a flux and a count rate), either sentinel in either column
InitClean ==
    /\ dataset \in {"SOHO_ERNE-HED_L2-1MIN", "SOHO_CELIAS-SEM_15S"}
    /\ pos_timestamp \in {"center", NoneVal}
    /\ resample \in {NoneVal, "1min"}
    /\ archive = {FileUniverse[1]}
    /\ disk \in {d \in [FileNames -> {"absent", "full"}] :
                    \A f \in FileNames \ archive : d[f] = "absent"}
    /\ content \in Tables(MaxRows, 2)
    /\ LoadIdle
    /\ OtherIdle

SpecClean == InitClean /\ [][NextLoad]_vars

\* ------------------------------------------------------------------------
\* resample_df called on its own
\* ------------------------------------------------------------------------
\* soho_load is not running
LoadUnused ==
    /\ dataset = NoneVal /\ pos_timestamp = NoneVal /\ resample = NoneVal
    /\ archive = {} /\ content = <<>> /\ disk = <<>> /\ pc = "idle"
    /\ result = <<>> /\ filelist = <<>> /\ i = 1
    /\ fetched = <<>> /\ fetchedFor = <<>> /\ removed = <<>> /\ df = <<>>
    /\ metadata = "unset" /\ printed = <<>> /\ thrown = "" /\ raised = ""
    /\ steps = <<>> /\ disk0 = <<>>

RsTimes == {0, 50, 100, 250}
RsCells == {NaN, <<2>>, <<5>>}

\* lines 25-39: one call of resample_df; a resample string that is no proper
\* frequency ends in the ValueError of line 38
ResampleCall ==
    /\ rsCall = <<>>
    /\ \E tb \in TablesOver(RsTimes, RsCells, MaxRows, 1), rs \in ResampleArgs \ {NoneVal},
          pos \in PosTokens :
          rsCall' = [df |-> tb, resample |-> rs, pos_timestamp |-> pos,
                     out |-> IF Timedelta(rs) = 0 THEN <<"ValueError">>
                             ELSE <<"ok", resample_df(tb, rs, pos)>>]
    /\ UNCHANGED <<loadVars, fxCall, ephin>>

InitResample == LoadUnused /\ rsCall = <<>> /\ fxCall = <<>> /\ ephin = <<>>

NextResample == ResampleCall

SpecResample == InitResample /\ [][NextResample]_vars

\* ------------------------------------------------------------------------
\* calc_av_en_flux_ERNE
\* ------------------------------------------------------------------------
\* channel indices of a descriptor table (a RangeIndex starting at 0)
Channels == 0..(NCh - 1)
DEValues == {1, 2}
FluxValues == {1, 3}

\* _get_metadata, lines 68-80: the descriptor table built from the channel
\* centre energies and half-widths
Descriptor(energy, delta) ==
    [c \in Channels |-> [lower_E |-> energy[c] - delta[c],
                         upper_E |-> energy[c] + delta[c],
                         DE |-> delta[c],
                         mean_E |-> energy[c]]]

\* the flux table of one ERNE sensor: columns P<letter>_<c> and A<letter>_<c>,
\* here one row deep; the key of a column is <<species prefix, letter, c>>
FluxTable(letter, pflux) ==
    [col \in {"P", "A"} \X {letter} \X Channels |->
        IF col[1] = "P" THEN pflux[col[3]] ELSE pflux[col[3]] + 4]

\* str.lower() on the species selectors
Lower(s) ==
    CASE s = "HE" -> "he"
      [] s = "Alpha" -> "alpha"
      [] s = "P" -> "p"
      [] s = "H" -> "h"
      [] OTHER -> s

\* sensor.upper()[0]
SensorLetter(sensor) ==
    CASE sensor = "HET" -> "H"
      [] sensor = "het" -> "H"
      [] sensor = "led" -> "L"
      [] sensor = "LED" -> "L"
      [] OTHER -> "?"

Species == {"he", "a", "alpha", "p", "i", "h", "HE", "P", "e"}
Sensors == {"HET", "led"}

\* avg_channels[0] and avg_channels[-1]
First(avg) == avg[1]
Last(avg) == avg[Len(avg)]

RECURSIVE SumDE(_, _)
\* Series.sum() of the DE column over the channels cs
SumDE(chd, cs) ==
    IF cs = {} THEN 0
    ELSE LET c == CHOOSE c \in cs : TRUE IN chd[c].DE + SumDE(chd, cs \ {c})

\* the DE total with an end-exclusive slice
DETotal_Exclusive(chd, avg) ==
    IF Len(avg) > 1
    THEN <<"ok", SumDE(chd, {c \in DOMAIN chd : First(avg) <= c /\ c < Last(avg)})>>
    ELSE IF First(avg) \in DOMAIN chd THEN <<"ok", chd[First(avg)].DE>>
         ELSE <<"KeyError">>

\* lines 191-194: the label slice .loc[m:n] takes the channels between the two
\* labels, both ends included, and accepts labels the sorted index lacks;
\* .loc[m] raises a KeyError for a label the index lacks
DETotal(chd, avg) ==
    IF Len(avg) > 1
    THEN <<"ok", SumDE(chd, {c \in DOMAIN chd : First(avg) <= c /\ c <= Last(avg)})>>
    ELSE IF First(avg) \in DOMAIN chd THEN <<"ok", chd[First(avg)].DE>>
         ELSE <<"KeyError">>

\* the selection without the lower-casing of the selector
SpeciesPrefix_CaseSensitive(species) ==
    IF species \in {"he", "a", "alpha"} THEN "A"
    ELSE IF species \in {"p", "i", "h"} THEN "P"
    ELSE ""

\* lines 199-202: the flux column the species selector names, "" for a
\* selector that is in neither alias list
SpeciesPrefix(species) ==
    IF Lower(species) \in {"he", "a", "alpha"} THEN "A"
    ELSE IF Lower(species) \in {"p", "i", "h"} THEN "P"
    ELSE ""

RECURSIVE FluxLoop(_, _, _, _, _, _, _)
\* lines 197-202: the loop over range(m, n+1), from bin b with t_flux = acc
FluxLoop(tb, chd, b, n, species, sensor, acc) ==
    IF b > n THEN <<"ok", acc>>
    ELSE IF SpeciesPrefix(species) = ""
         THEN FluxLoop(tb, chd, b + 1, n, species, sensor, acc)
         ELSE LET col == <<SpeciesPrefix(species), SensorLetter(sensor), b>>
              IN  IF col \notin DOMAIN tb \/ b \notin DOMAIN chd
                  THEN <<"KeyError">>
                  ELSE FluxLoop(tb, chd, b + 1, n, species, sensor,
                                acc + tb[col] * chd[b].DE)

\* the label lookups answering a default for a channel the table lacks
EnergyLabel_Default(chd, avg) ==
    <<"ok", IF First(avg) \in DOMAIN chd THEN chd[First(avg)].lower_E ELSE 0,
            IF Last(avg) \in DOMAIN chd THEN chd[Last(avg)].upper_E ELSE 0>>

\* lines 206-211: lower_E[m] and upper_E[n], each a KeyError for a channel
\* the table lacks
EnergyLabel(chd, avg) ==
    IF First(avg) \notin DOMAIN chd \/ Last(avg) \notin DOMAIN chd
    THEN <<"KeyError">>
    ELSE <<"ok", chd[First(avg)].lower_E, chd[Last(avg)].upper_E>>

\* lines 185-213.  avg_flux is the fraction num/den; den = 0 comes with
\* num = 0 only (an empty slice and an empty loop) and 0/0 on numpy scalars is
\* NaN, not an exception
calc_av_en_flux_ERNE(tb, chd, avg, species, sensor) ==
    LET de == DETotal(chd, avg)
        fl == FluxLoop(tb, chd, First(avg), Last(avg), species, sensor, 0)
        lb == EnergyLabel(chd, avg)
    IN  IF de[1] # "ok" THEN [kind |-> "KeyError"]
        ELSE IF fl[1] # "ok" THEN [kind |-> "KeyError"]
        ELSE IF lb[1] # "ok" THEN [kind |-> "KeyError"]
        ELSE [kind |-> "ok", num |-> fl[2], den |-> de[2],
              label |-> <<lb[2], " - ", lb[3], " MeV">>]

\* the avg_channels lists: [m] and [m, n], with channels the table lacks
AvgChannels == SeqsOf((0 - 1)..NCh, 1, 2)

\* one call of calc_av_en_flux_ERNE
FluxCall ==
    /\ fxCall = <<>>
    /\ \E delta \in [Channels -> DEValues], pflux \in [Channels -> FluxValues],
          letter \in {"H", "L"}, avg \in AvgChannels, species \in Species,
          sensor \in Sensors :
          LET chd == Descriptor([c \in Channels |-> 10 * (c + 1)], delta)
              tb == FluxTable(letter, pflux)
          IN  fxCall' = [df |-> tb, channels_dict_df |-> chd, avg_channels |-> avg,
                         species |-> species, sensor |-> sensor,
                         out |-> calc_av_en_flux_ERNE(tb, chd, avg, species, sensor)]
    /\ UNCHANGED <<loadVars, rsCall, ephin>>

InitFlux == LoadUnused /\ rsCall = <<>> /\ fxCall = <<>> /\ ephin = <<>>

NextFlux == FluxCall

SpecFlux == InitFlux /\ [][NextFlux]_vars

\* ------------------------------------------------------------------------
\* EPHIN level-2 loaders: soho_ephin_loader and ephin_rl2_loader
\* ------------------------------------------------------------------------
\* '{0:08b}'.format: the minimum width of the binary string
FormatWidth == 8

RECURSIVE Binary(_)
\* the binary digits of n >= 0, most significant first
Binary(n) == IF n < 2 THEN <<n>> ELSE Binary(n \div 2) \o <<n % 2>>

\* '{0:08b}'.format(int(status)): zero-padded on the left to FormatWidth digits
Format08b(n) ==
    LET b == Binary(n)
    IN  IF Len(b) >= FormatWidth THEN b
        ELSE [k \in 1..(FormatWidth - Len(b)) |-> 0] \o b

\* binaries[-k]
FromEnd(b, k) == b[Len(b) - k + 1]

\* the mode read from the two leading digits of the string
FMode_FromFront(status) ==
    LET binaries == Format08b(status)
    IN  IF binaries[1] = 1
        THEN IF binaries[3] = 1 THEN 1 ELSE 2
        ELSE 0

\* lines 342-349 and 490-497: the failure mode of one row
FMode(status) ==
    LET binaries == Format08b(status)
    IN  IF FromEnd(binaries, 1) = 1
        THEN IF FromEnd(binaries, 3) = 1 THEN 1 ELSE 2
        ELSE 0

\* lines 351-355 and 499-503: the ring-off flag of one row
RingOff(status) ==
    LET binaries == Format08b(status)
    IN  IF FromEnd(binaries, 2) # 0 THEN 1 ELSE 0

\* max(fmodes) of a non-empty array
MaxOf(s) == CHOOSE x \in Range(s) : \A y \in Range(s) : y <= x

DefaultLabels == [e1300 |-> "2.64-6.18", p25 |-> "25-41 MeV", he25 |-> "25-41 MeV/N"]
MergedLabels == [e1300 |-> "2.64 - 10.40 MeV", p25 |-> "25-53 MeV", he25 |-> "25 - 53 MeV/N"]

\* lines 357-363 and 505-511: the labels of the channels that merge
ChannelLabels(fmodes) == IF MaxOf(fmodes) = 1 THEN MergedLabels ELSE DefaultLabels

\* lines 364-365 and 512-513
RingOffWarning(fmodes) == MaxOf(fmodes) = 2

\* the status words of the model: 0..MaxStatus, and the same words with bit 8
\* set, which format to nine digits
StatusWords == (0..MaxStatus) \cup {2 ^ FormatWidth + 1, 2 ^ FormatWidth + 2,
                                    2 ^ FormatWidth + 5}

\* the row of a daily file: its time (day d, in ticks) and its Status Flag
EphinRow(d, status) == [t |-> (d - 1) * 172800, c |-> <<<<status>>>>]

EphinIdle ==
    [fn |-> "", pc |-> "idle", pos_timestamp |-> NoneVal, resample |-> NoneVal,
     dates |-> 0, k |-> 1, avail |-> <<>>, filelist |-> <<>>, status |-> <<>>,
     fmodes |-> <<>>, ringoff |-> <<>>, warned |-> FALSE, printed |-> <<>>,
     df |-> <<>>, meta |-> <<>>, raised |-> ""]

\* a call of soho_ephin_loader over a range of n days
EphinStart ==
    /\ ephin.pc = "idle"
    /\ \E n \in 1..MaxDates, pos \in PosTokens, rs \in {NoneVal, "12h"} :
          ephin' = [ephin EXCEPT !.fn = "soho_ephin_loader", !.pc = "dates",
                                 !.pos_timestamp = pos, !.resample = rs, !.dates = n]
    /\ UNCHANGED <<loadVars, rsCall, fxCall>>

\* lines 291-305, the iteration for day k, with soho_ephin_download (lines
\* 250-258) when the file is not found locally
EphinDate ==
    /\ ephin.pc = "dates"
    /\ ephin.k <= ephin.dates
    /\ LET notLocal == <<"File not found locally", ephin.k>>
       IN  \/ \* glob finds the file
              ephin' = [ephin EXCEPT !.k = @ + 1,
                                     !.avail = Append(@, "local"),
                                     !.filelist = Append(@, ephin.k)]
           \/ \* not found locally; pooch.retrieve succeeds, at once or in the
              \* retry without progress bar
              ephin' = [ephin EXCEPT !.k = @ + 1,
                                     !.avail = Append(@, "downloaded"),
                                     !.printed = Append(@, notLocal),
                                     !.filelist = Append(@, ephin.k)]
           \/ \* not found locally; requests.HTTPError: notice, file = []
              ephin' = [ephin EXCEPT !.k = @ + 1,
                                     !.avail = Append(@, "notfound"),
                                     !.printed = @ \o <<notLocal,
                                        <<"No corresponding EPHIN data found", ephin.k>>>>]
           \/ \* not found locally; ModuleNotFoundError, and the retry inside the
              \* except clause fails with an HTTPError no clause handles
              ephin' = [ephin EXCEPT !.pc = "raised", !.raised = "HTTPError",
                                     !.avail = Append(@, "retry failed"),
                                     !.printed = Append(@, notLocal)]
    /\ UNCHANGED <<loadVars, rsCall, fxCall>>

\* lines 306-393 once the loop is over: read the files found, decode the
\* status, label, offset, resample, build meta and return; with no file found
\* cs_e1300 is read at line 381 without ever being assigned
EphinBuild ==
    /\ ephin.pc = "dates"
    /\ ephin.k > ephin.dates
    /\ IF Len(ephin.filelist) > 0
       THEN \E st \in [1..Len(ephin.filelist) -> StatusWords] :
               LET rows == [q \in DOMAIN st |-> EphinRow(ephin.filelist[q], st[q])]
                   fm == [q \in DOMAIN st |-> FMode(st[q])]
                   ro == [q \in DOMAIN st |-> RingOff(st[q])]
                   d1 == IF ephin.pos_timestamp = "center"
                         THEN ShiftIndex(rows, Timedelta("30s")) ELSE rows
                   d2 == IF ephin.resample # NoneVal
                         THEN resample_df(d1, ephin.resample, ephin.pos_timestamp)
                         ELSE d1
               IN  ephin' = [ephin EXCEPT !.pc = "done", !.status = st, !.fmodes = fm,
                                          !.ringoff = ro,
                                          !.warned = RingOffWarning(fm),
                                          !.df = d2, !.meta = ChannelLabels(fm)]
       ELSE ephin' = [ephin EXCEPT !.pc = "raised", !.raised = "UnboundLocalError"]
    /\ UNCHANGED <<loadVars, rsCall, fxCall>>

\* lines 443-656: a call of ephin_rl2_loader over files that hold the given
\* status column
Rl2Load ==
    /\ ephin.pc = "idle"
    /\ \E st \in SeqsOf(StatusWords, 1, MaxDates) :
          LET fm == [q \in DOMAIN st |-> FMode(st[q])]
              ro == [q \in DOMAIN st |-> RingOff(st[q])]
          IN  ephin' = [ephin EXCEPT !.fn = "ephin_rl2_loader", !.pc = "done",
                                     !.dates = Len(st), !.status = st, !.fmodes = fm,
                                     !.ringoff = ro, !.warned = RingOffWarning(fm),
                                     !.df = [q \in DOMAIN st |->
                                               [t |-> (q - 1) * 172800,
                                                c |-> <<<<fm[q]>>, <<ro[q]>>>>]],
                                     !.meta = ChannelLabels(fm)]
    /\ UNCHANGED <<loadVars, rsCall, fxCall>>

InitEphin == LoadUnused /\ rsCall = <<>> /\ fxCall = <<>> /\ ephin = EphinIdle

NextEphin == EphinStart \/ EphinDate \/ EphinBuild \/ Rl2Load

SpecEphin == InitEphin /\ [][NextEphin]_vars

\* ========================================================================
\* Claims
\* ========================================================================

\* C1: soho_load called with a pos_timestamp that is none of 'center', 'start'
\* or None raises a ValueError at once: before the failure there is no search,
\* no file removal, no fetch and no parse, whatever the dataset and the files.
C1_InvalidPosFailsFirst ==
    ~(pos_timestamp \in {"center", "start", NoneVal}) =>
        /\ pc \in {"validate", "raised"}
        /\ pc = "raised" => raised = "ValueError"
        /\ steps = <<>> /\ result = <<>> /\ filelist = <<>>
        /\ fetched = <<>> /\ removed = <<>> /\ disk = disk0
        /\ df = <<>> /\ metadata = "unset" /\ printed = <<>>

C1_Witness ==
    /\ pos_timestamp = "end" /\ pc = "raised" /\ raised = "ValueError"
    /\ steps = <<>> /\ \E f \in archive : disk[f] = "empty"

\* C2: without resampling, every timestamp of the table soho_load returns is
\* the parsed timestamp plus a constant fixed by (dataset, pos_timestamp):
\* +30 s (60 ticks) for 'center' with the ERNE-HED, ERNE-LED and EPHIN-L3I
\* 1-minute datasets, +15 s (30 ticks) for 'center' with CELIAS-PM, -7.5 s
\* (-15 ticks) for 'start' with CELIAS-SEM, and 0 for every other combination.
C2_Offset(ds, pos) ==
    CASE pos = "center" /\ ds \in {"SOHO_ERNE-HED_L2-1MIN", "SOHO_ERNE-LED_L2-1MIN",
                                   "SOHO_COSTEP-EPHIN_L3I-1MIN"} -> 60
      [] pos = "center" /\ ds = "SOHO_CELIAS-PM_30S" -> 30
      [] pos = "start" /\ ds = "SOHO_CELIAS-SEM_15S" -> -15
      [] OTHER -> 0

C2_ConstantOffset ==
    (pc \in {"return", "done"} /\ thrown = "" /\ resample = NoneVal) =>
        /\ Len(df) = Len(content)
        /\ \A k \in DOMAIN df : df[k].t = content[k].t + C2_Offset(dataset, pos_timestamp)

C2_Witness ==
    /\ pc = "done" /\ thrown = "" /\ resample = NoneVal
    /\ dataset = "SOHO_CELIAS-SEM_15S" /\ pos_timestamp = "start"
    /\ Len(df) = 2 /\ df[1].t = content[1].t - 15 /\ df[2].t = content[2].t - 15

\* C3: when the search signals 'no results' (a RuntimeError) soho_load does
\* not raise: it prints a notice that contains the dataset name and returns
\* (empty, empty); an error of any other kind raised inside the pipeline is
\* not caught and reaches the caller.
C3_OnlyRuntimeErrorCaught ==
    /\ thrown = "RuntimeError" =>
          /\ raised = "" /\ pc \in {"except", "return", "done"}
          /\ pc \in {"return", "done"} =>
                /\ df = <<>> /\ metadata = "[]"
                /\ Len(printed) = 1 /\ dataset \in Range(printed[1])
    /\ ~(thrown \in {"", "RuntimeError"}) =>
          /\ pc = "raised" /\ raised = thrown /\ printed = <<>>

C3_Witness ==
    /\ pc = "done" /\ thrown = "RuntimeError" /\ raised = ""
    /\ df = <<>> /\ metadata = "[]" /\ dataset \in Range(printed[1])

\* C9: for every file name in the search result, in whatever order the search
\* returns its items: a same-named local file of non-zero size means no fetch
\* is issued for it; a file that is absent or of size zero (and then removed
\* first) gets exactly one fetch, and that fetch is for the remote item that
\* carries the same file name.
C9_FetchesTheMissingFile ==
    (pc = "loop" /\ i > Len(filelist)) =>
        \A f \in Range(result) :
            IF disk0[f] = "full"
            THEN f \notin Range(fetched) /\ f \notin Range(fetchedFor)
            ELSE /\ Cardinality({j \in DOMAIN fetchedFor : fetchedFor[j] = f}) = 1
                 /\ \A j \in DOMAIN fetchedFor : fetchedFor[j] = f => fetched[j] = f
                 /\ disk0[f] = "empty" <=> f \in Range(removed)

\* C10: resample_df with pos_timestamp 'start' labels each bin with the bin's
\* left edge, and with any other value ('center', None, ...) with the left
\* edge plus half the bin width W; so the 'start' result has the same bin
\* means as the default result and its index is the default index minus W/2.
C10_Labels(out, tb, w, shift) ==
    /\ \A b \in DOMAIN out : (out[b].t - shift) % w = 0
    /\ \A b \in 1..(Len(out) - 1) : out[b + 1].t = out[b].t + w
    /\ \A k \in DOMAIN tb :
          \E b \in DOMAIN out : /\ out[b].t - shift <= tb[k].t
                                /\ tb[k].t < out[b].t - shift + w
    /\ out[1].t - shift <= tb[1].t /\ tb[1].t < out[1].t - shift + w
    /\ out[Len(out)].t - shift <= tb[Len(tb)].t

C10_StartIsCenterMinusHalf ==
    (rsCall # <<>> /\ rsCall.out[1] = "ok") =>
        LET w == Timedelta(rsCall.resample)
            out == rsCall.out[2]
            start == resample_df(rsCall.df, rsCall.resample, "start")
        IN  /\ C10_Labels(out, rsCall.df, w,
                          IF rsCall.pos_timestamp = "start" THEN 0 ELSE w \div 2)
            /\ rsCall.pos_timestamp # "start" =>
                  /\ Len(start) = Len(out)
                  /\ \A b \in DOMAIN out : /\ start[b].c = out[b].c
                                           /\ start[b].t = out[b].t - (w \div 2)

C10_Witness ==
    /\ rsCall # <<>> /\ rsCall.out[1] = "ok"
    /\ rsCall.pos_timestamp = NoneVal /\ rsCall.resample = "30s"
    /\ Len(rsCall.df) = 2 /\ rsCall.df[1].t = 50 /\ rsCall.df[2].t = 250
    /\ Len(rsCall.out[2]) = 5 /\ rsCall.out[2][1].t = 30
    /\ rsCall.out[2][2].c[1] = NaN

\* the claims' reading of a call: m, n, the flux column of channel c
FxM == First(fxCall.avg_channels)
FxN == Last(fxCall.avg_channels)
FxFlux(c) ==
    fxCall.df[<<IF Lower(fxCall.species) \in {"he", "a", "alpha"} THEN "A" ELSE "P",
                SensorLetter(fxCall.sensor), c>>]
FxHasColumns ==
    /\ Lower(fxCall.species) \in {"he", "a", "alpha", "p", "i", "h"}
    /\ \A c \in DOMAIN fxCall.channels_dict_df :
          <<"P", SensorLetter(fxCall.sensor), c>> \in DOMAIN fxCall.df
FxPresent(c) == c \in DOMAIN fxCall.channels_dict_df

RECURSIVE C4_Sum(_, _, _)
\* sum over c in lo..hi of term[c]
C4_Sum(term, lo, hi) == IF lo > hi THEN 0 ELSE term[lo] + C4_Sum(term, lo + 1, hi)

\* C4: for every channel range [m, n] with m <= n in the descriptor table,
\* calc_av_en_flux_ERNE returns (sum of flux_c * DE_c) / (sum of DE_c) over
\* c in m..n; so uniform flux f and uniform half-width give exactly f, m == n
\* gives that channel's flux, and [m] and [m, m] give the same result.
C4_WeightedMean ==
    (fxCall # <<>> /\ FxPresent(FxM) /\ FxPresent(FxN) /\ FxM <= FxN /\ FxHasColumns) =>
        LET chd == fxCall.channels_dict_df
            out == fxCall.out
        IN  /\ out.kind = "ok"
            /\ out.num = C4_Sum([c \in FxM..FxN |-> FxFlux(c) * chd[c].DE], FxM, FxN)
            /\ out.den = C4_Sum([c \in FxM..FxN |-> chd[c].DE], FxM, FxN)
            /\ out.den > 0
            /\ \A f \in FluxValues, w \in DEValues :
                  (\A c \in FxM..FxN : FxFlux(c) = f /\ chd[c].DE = w) =>
                      out.num = f * out.den
            /\ FxM = FxN =>
                  /\ out.num = FxFlux(FxM) * out.den
                  /\ out = calc_av_en_flux_ERNE(fxCall.df, chd, <<FxM>>,
                                                fxCall.species, fxCall.sensor)
                  /\ out = calc_av_en_flux_ERNE(fxCall.df, chd, <<FxM, FxM>>,
                                                fxCall.species, fxCall.sensor)

C4_Witness ==
    /\ fxCall # <<>> /\ fxCall.avg_channels = <<0, 2>> /\ fxCall.species = "p"
    /\ fxCall.sensor = "HET"
    /\ fxCall.channels_dict_df[0].DE = 1 /\ fxCall.channels_dict_df[1].DE = 2
    /\ fxCall.channels_dict_df[2].DE = 2
    /\ FxFlux(0) = 1 /\ FxFlux(1) = 3 /\ FxFlux(2) = 3
    /\ fxCall.out.kind = "ok" /\ fxCall.out.num = 13 /\ fxCall.out.den = 5

\* C5 as the spec states it: a channel range that violates the precondition
\* (m > n, or m or n absent from the descriptor table) fails with a key/index
\* lookup error and returns no (avg_flux, label) pair.
C5_BadRangeRaises ==
    (fxCall # <<>> /\ (FxM > FxN \/ ~FxPresent(FxM) \/ ~FxPresent(FxN))) =>
        fxCall.out.kind = "KeyError"

\* C5 as amended: a range with m or n absent from the descriptor table fails
\* with a key lookup error and returns no pair; a range with m > n and both
\* present raises nothing: no flux column is read and the call returns the
\* pair (0/0, "lower_E[m] - upper_E[n] MeV").
C5_AbsentRaisesReversedReturns ==
    fxCall # <<>> =>
        /\ (~FxPresent(FxM) \/ ~FxPresent(FxN)) => fxCall.out.kind = "KeyError"
        /\ (FxPresent(FxM) /\ FxPresent(FxN) /\ FxM > FxN) =>
              /\ fxCall.out.kind = "ok"
              /\ fxCall.out.num = 0 /\ fxCall.out.den = 0
              /\ fxCall.out.label = <<fxCall.channels_dict_df[FxM].lower_E, " - ",
                                      fxCall.channels_dict_df[FxN].upper_E, " MeV">>

C5_Witness ==
    /\ fxCall # <<>> /\ fxCall.avg_channels = <<2, 0>>
    /\ fxCall.out.kind = "ok" /\ fxCall.out.den = 0

\* the three lowest bits of a status integer
StatusBit(status, b) == (status \div (2 ^ b)) % 2

\* C6: in the EPHIN loaders the mode of a row depends on the three lowest bits
\* of its status integer only: 1 when bits 0 and 2 are set, 2 when bit 0 is
\* set and bit 2 is clear, 0 when bit 0 is clear; the ring-off flag is 1
\* exactly when bit 1 is set, whatever the mode.
C6_ModeFromLowBits ==
    ephin.pc = "done" =>
        \A q \in DOMAIN ephin.status :
            LET s == ephin.status[q]
            IN  /\ ephin.fmodes[q] =
                      (IF StatusBit(s, 0) = 1
                       THEN (IF StatusBit(s, 2) = 1 THEN 1 ELSE 2)
                       ELSE 0)
                /\ ephin.ringoff[q] = StatusBit(s, 1)

C6_Witness ==
    /\ ephin.pc = "done" /\ ephin.fn = "soho_ephin_loader"
    /\ ephin.status = <<2 ^ FormatWidth + 5, 3>>
    /\ ephin.fmodes = <<1, 2>> /\ ephin.ringoff = <<0, 1>>

\* C7: rows in mode 2 do not by themselves change the channel labels: for
\* every set of loaded rows the e1300/p25/he25 labels of the returned meta are
\* the merged labels exactly when at least one row decodes to mode 1, and
\* they are the labels obtained for the same rows without the mode-2 rows.
C7_Mode2KeepsLabels ==
    ephin.pc = "done" =>
        LET others == SelectSeq(ephin.fmodes, LAMBDA m : m # 2)
        IN  /\ ephin.meta = MergedLabels <=> (\E q \in DOMAIN ephin.fmodes : ephin.fmodes[q] = 1)
            /\ ephin.meta \in {MergedLabels, DefaultLabels}
            /\ others # <<>> => ephin.meta = ChannelLabels(others)

\* C8: soho_ephin_loader, for a date range in which every daily file is
\* missing locally and its download fails too, prints the notices, skips
\* every date and returns an empty result without raising; when only some
\* dates fail it returns the table built from the remaining files.
C8_AllMissingReturnsEmpty ==
    (/\ ephin.fn = "soho_ephin_loader" /\ ephin.pc \in {"done", "raised"}
     /\ \A d \in DOMAIN ephin.avail : ephin.avail[d] \in {"local", "downloaded", "notfound"}) =>
        LET found == SelectSeq([d \in DOMAIN ephin.avail |-> d],
                               LAMBDA d : ephin.avail[d] # "notfound")
        IN  /\ ephin.raised = "" /\ ephin.pc = "done"
            /\ \A d \in DOMAIN ephin.avail :
                  ephin.avail[d] = "notfound" =>
                      /\ <<"File not found locally", d>> \in Range(ephin.printed)
                      /\ <<"No corresponding EPHIN data found", d>> \in Range(ephin.printed)
            /\ ephin.filelist = found
            /\ IF found = <<>> THEN ephin.df = <<>>
               ELSE /\ Len(ephin.status) = Len(found)
                    /\ ephin.df # <<>>

\* C11: the sentinel cleaning step of soho_load replaces every cell equal to
\* -1e31 or to -2147483648, in any column, with the missing marker and changes
\* no other cell; applied a second time to its own output it changes nothing.
C11_CleanIsExactAndIdempotent ==
    pc = "offset" =>
        /\ Len(df) = Len(content)
        /\ \A k \in DOMAIN df :
              /\ df[k].t = content[k].t
              /\ DOMAIN df[k].c = DOMAIN content[k].c
              /\ \A j \in DOMAIN df[k].c :
                    df[k].c[j] = IF content[k].c[j] \in {<<FILLVAL_FLUX>>, <<FILLVAL_INT>>}
                                 THEN NaN ELSE content[k].c[j]
        /\ Clean(df) = df

C11_Witness ==
    /\ pc = "offset" /\ Len(content) = 2
    /\ content[1].c = <<<<FILLVAL_INT>>, <<FILLVAL_FLUX>>>>
    /\ content[2].c = <<<<2>>, <<FILLVAL_INT>>>>
    /\ df[1].c = <<NaN, NaN>> /\ df[2].c = <<<<2>>, NaN>>

\* C12: soho_ephin_loader called with a pos_timestamp that is none of
\* 'center', 'start' or absent fails at once with a validation error, before
\* any file is looked up, downloaded or read; it never returns a table for
\* such a token.
C12_EphinInvalidPosFailsFirst ==
    (ephin.fn = "soho_ephin_loader"
     /\ ~(ephin.pos_timestamp \in {"center", "start", NoneVal})) =>
        /\ ephin.pc # "done"
        /\ ephin.avail = <<>> /\ ephin.filelist = <<>> /\ ephin.printed = <<>>
        /\ ephin.status = <<>> /\ ephin.df = <<>>
        /\ ephin.pc = "raised" => ephin.raised = "ValueError"

\* the steps of a call of soho_load, without the removals and fetches
C13_MainSteps == SelectSeq(steps, LAMBDA x : x \notin {"remove", "fetch"})

\* the rows of content whose offset timestamp lies in [left, left + w)
C13_RowsOfBin(left, w) ==
    {k \in DOMAIN content :
        /\ left <= content[k].t + C2_Offset(dataset, pos_timestamp)
        /\ content[k].t + C2_Offset(dataset, pos_timestamp) < left + w}

RECURSIVE C13_Sum(_, _)
\* sum of the column-j values of the rows ks of content
C13_Sum(j, ks) ==
    IF ks = {} THEN 0
    ELSE LET k == CHOOSE k \in ks : TRUE IN content[k].c[j][1] + C13_Sum(j, ks \ {k})

\* C13: in every successful soho_load call the steps come in the order
\* search, fetch of missing files, parse, sentinel cleaning, constant offset,
\* optional resampling: the resampling bins the offset timestamps (a row at
\* native time t lands in the bin that holds t + offset, labelled left edge
\* + W/2 unless 'start' is asked for) and no bin mean counts a sentinel.
C13_PipelineOrder ==
    (pc = "done" /\ thrown = "") =>
        /\ C13_MainSteps = <<"search", "parse", "clean", "offset">>
                           \o (IF resample # NoneVal THEN <<"resample">> ELSE <<>>)
        /\ \A a \in DOMAIN steps :
              steps[a] \in {"remove", "fetch"} =>
                  /\ \E b \in 1..(a - 1) : steps[b] = "search"
                  /\ \A b \in 1..(a - 1) : steps[b] \in {"search", "remove", "fetch"}
        /\ resample # NoneVal =>
              LET w == Timedelta(resample)
                  shift == IF pos_timestamp = "start" THEN 0 ELSE w \div 2
              IN  /\ C10_Labels(df, ShiftIndex(content, C2_Offset(dataset, pos_timestamp)),
                                w, shift)
                  /\ \A b \in DOMAIN df : \A j \in DOMAIN df[b].c :
                        LET good == {k \in C13_RowsOfBin(df[b].t - shift, w) :
                                        content[k].c[j] \notin {<<FILLVAL_FLUX>>,
                                                                <<FILLVAL_INT>>}}
                        IN  df[b].c[j] = IF good = {} THEN NaN
                                         ELSE <<C13_Sum(j, good), Cardinality(good)>>

C13_Witness ==
    /\ pc = "done" /\ thrown = "" /\ resample = "1min"
    /\ dataset = "SOHO_ERNE-HED_L2-1MIN" /\ pos_timestamp = "center"
    /\ Len(content) = 2
    /\ content[1] = [t |-> 50, c |-> <<<<FILLVAL_FLUX>>>>]
    /\ content[2] = [t |-> 100, c |-> <<<<2>>>>]
    /\ df = <<[t |-> 60, c |-> <<NaN>>], [t |-> 180, c |-> <<<<2, 1>>>>]>>
    /\ "fetch" \in Range(steps)

\* C14: the result of calc_av_en_flux_ERNE depends on the species argument
\* only through its alias class, whatever the case: two selectors of
\* {'he','a','alpha'} give the same result, two of {'p','i','h'} give the same
\* result, and a selector of neither class raises nothing and reads no flux
\* column, so avg_flux is 0 (for a non-zero total half-width) whatever the
\* table holds, with the label still lower_E[m] - upper_E[n].
C14_SpeciesByAliasClass ==
    fxCall # <<>> =>
        LET chd == fxCall.channels_dict_df
            cls == Lower(fxCall.species)
            same(other) == fxCall.out = calc_av_en_flux_ERNE(fxCall.df, chd,
                                            fxCall.avg_channels, other, fxCall.sensor)
        IN  /\ cls \in {"he", "a", "alpha"} =>
                  \A other \in {"he", "a", "alpha", "HE", "Alpha"} : same(other)
            /\ cls \in {"p", "i", "h"} =>
                  \A other \in {"p", "i", "h", "P", "H"} : same(other)
            /\ (cls \notin {"he", "a", "alpha", "p", "i", "h"}
                /\ FxPresent(FxM) /\ FxPresent(FxN)) =>
                  /\ fxCall.out.kind = "ok"
                  /\ fxCall.out.num = 0
                  /\ fxCall.out.label = <<chd[FxM].lower_E, " - ", chd[FxN].upper_E, " MeV">>
                  /\ FxM <= FxN => fxCall.out.den > 0

C14_Witness ==
    /\ fxCall # <<>> /\ fxCall.species = "e" /\ fxCall.avg_channels = <<0, 2>>
    /\ fxCall.sensor = "led" /\ <<"P", "H", 0>> \in DOMAIN fxCall.df
    /\ fxCall.out.kind = "ok" /\ fxCall.out.num = 0 /\ fxCall.out.den > 0
====
